---- MODULE Spec2Model ----
(***************************************************************************)
(* Scenario execution engine of voice-agent-tester: the browser session   *)
(* lifecycle, the instrumentation injection and the step interpreter, for *)
(* both entry points: src/main.py ("main", one scenario, glob-based       *)
(* injector, async execute_step) and src/voice_agent_tester/__main.py     *)
(* ("pkg", a list of scenarios, three-asset injector, inline step loop).  *)
(*                                                                         *)
(* Strings are sequences of one-character strings.  Every call the code   *)
(* makes on the browser, every line it prints and every sleep is appended *)
(* to `trace`, the history of the run_scenario call in progress.          *)
(***************************************************************************)
EXTENDS Naturals, Sequences, FiniteSets

VARIABLES entry,    \* which entry point runs: "main" or "pkg"
          numScen,  \* number of configured scenarios (1 for main.py)
          started,  \* number of run_scenario calls made so far
          steps,    \* the step list of the scenario being run
          pc,       \* position of the process in the code
          idx,      \* loop index: js file / asset / step about to be handled
          jsFiles,  \* main.py: the list glob.glob returned
          browser,  \* "none" (not launched), "open", "closed"
          trace,    \* events of the current run_scenario call, in order
          verbose,  \* main.py: args.verbose (the package has no such flag)
          listener, \* a console listener is registered on the page
          console   \* page console messages printed during the current call

vars == <<entry, numScen, started, steps, pc, idx, jsFiles, browser, trace,
          verbose, listener, console>>

-----------------------------------------------------------------------------
(* Bounds of the model *)

MaxSteps == 2
MaxScenarios == 2
MaxConsole == 1

-----------------------------------------------------------------------------
(* Program constants: the fixed sleeps of the code, in milliseconds *)

ClickSettleMs == 500
VoiceWaitMs == 1000000
SilenceWaitMs == 1000000
SpeechWaitMs == 10000
KeepOpenMs == 5000
MsPerSecond == 1000

-----------------------------------------------------------------------------
(* Strings and configuration values *)

Quote == "\""
Backslash == "\\"
Digits == <<"0", "1", "2", "3", "4", "5", "6", "7", "8", "9">>

Selector == <<"#", "b">>
NoValue == <<>>

\* texts of speak steps: absent/empty, plain, with a double quote, with a
\* backslash escape
Texts == {<<>>, <<"a">>, <<"a", Quote>>, <<Backslash, "a">>}

\* values of the package's steps: Union[str, int], written in decimal
Values == {<<"2">>, <<"x">>}

MkStep(action, element, text, value) ==
    [action |-> action, element |-> element, text |-> text, value |-> value]

\* steps of a main.py config: {action, element, text}
MainSteps ==
    {MkStep("click", e, NoValue, NoValue) : e \in {NoValue, Selector}}
    \cup {MkStep("wait", e, NoValue, NoValue) : e \in {NoValue, Selector}}
    \cup {MkStep("wait_for_voice", NoValue, NoValue, NoValue),
          MkStep("wait_for_silence", NoValue, NoValue, NoValue),
          MkStep("hover", NoValue, NoValue, NoValue)}
    \cup {MkStep("speak", NoValue, t, NoValue) : t \in Texts}

\* steps of a package config: Step(action, value)
PkgSteps ==
    {MkStep("wait", NoValue, NoValue, v) : v \in Values}
    \cup {MkStep("say", NoValue, NoValue, <<"a">>),
          MkStep("speak", NoValue, NoValue, <<"a">>)}

SeqsUpTo(S, n) == UNION {[1..k -> S] : k \in 0..n}

\* the files glob.glob can find in the javascript folder
JsFolder == {<<"audio_output_hooks.js">>, <<"audio_input_hooks.js">>}

\* glob.glob returns the matching files in arbitrary order
GlobResults ==
    {s \in SeqsUpTo(JsFolder, Cardinality(JsFolder)) :
        \A i, j \in 1..Len(s) : i # j => s[i] # s[j]}

\* the three assets of the package entry point, in the order of the code
Assets == <<<<"audio_output_hooks.js">>, <<"audio_input_hooks.js">>,
            <<"scenario.js">>>>

-----------------------------------------------------------------------------
(* Events *)

Ev(op, i, arg, n, ok) == [op |-> op, step |-> i, arg |-> arg, n |-> n, ok |-> ok]

Log(i, msg) == Ev("print", i, <<msg>>, 0, TRUE)
Call(op, i, arg, ok) == Ev(op, i, arg, 0, ok)
Sleep(i, ms) == Ev("sleep", i, <<>>, ms, TRUE)

RECURSIVE SumSleep(_)
SumSleep(evs) ==
    IF evs = <<>> THEN 0
    ELSE (IF Head(evs).op = "sleep" THEN Head(evs).n ELSE 0) + SumSleep(Tail(evs))

-----------------------------------------------------------------------------
(* The script of a speak step, and what the page makes of it *)

SpeakPrefix == <<"speechSynthesis.speak(new SpeechSynthesisUtterance(", Quote>>
SpeakSuffix == <<Quote, ")", ")">>

\* f'speechSynthesis.speak(new SpeechSynthesisUtterance("{text}"))'
FormatSpeak(text) == SpeakPrefix \o text \o SpeakSuffix

\* A JavaScript double-quoted string literal read from position i (just
\* after the opening quote): it ends at the first quote that no backslash
\* escapes; a backslash takes the next character literally.
RECURSIVE ScanString(_, _, _)
ScanString(s, i, acc) ==
    IF i > Len(s) THEN [closed |-> FALSE, text |-> acc, next |-> i]
    ELSE IF s[i] = Quote THEN [closed |-> TRUE, text |-> acc, next |-> i + 1]
    ELSE IF s[i] = Backslash
         THEN IF i + 1 > Len(s)
              THEN [closed |-> FALSE, text |-> acc, next |-> i]
              ELSE ScanString(s, i + 2, Append(acc, s[i + 1]))
    ELSE ScanString(s, i + 1, Append(acc, s[i]))

\* The page evaluates the script: it is a call of the speech-synthesis entry
\* point with one string literal, or a syntax error.
ParseSpeak(script) ==
    LET r == ScanString(script, Len(SpeakPrefix) + 1, <<>>)
    IN  [valid |-> r.closed /\ SubSeq(script, r.next, Len(script)) = <<")", ")">>,
         text  |-> r.text]

-----------------------------------------------------------------------------
(* src/main.py: execute_step.  A handler yields the events it produces and *)
(* whether an exception leaves it; ok is the outcome of its page call.     *)

Handled(evs) == [ev |-> evs, raised |-> FALSE]
Raised(evs) == [ev |-> evs, raised |-> TRUE]

\* a click handler without the try/except around page.click
ClickHandlerUncaught(step, i, ok) ==
    IF step.element # <<>>
    THEN LET evs == <<Log(i, "Clicking element"), Call("click", i, step.element, ok)>>
         IN  IF ok THEN Handled(evs \o <<Sleep(i, ClickSettleMs)>>) ELSE Raised(evs)
    ELSE Handled(<<Log(i, "Error: No element specified for click action")>>)

ClickHandler(step, i, ok) ==
    IF step.element # <<>>
    THEN Handled(<<Log(i, "Clicking element"), Call("click", i, step.element, ok)>>
                 \o (IF ok THEN <<Sleep(i, ClickSettleMs)>>
                     ELSE <<Log(i, "Error clicking element")>>))
    ELSE Handled(<<Log(i, "Error: No element specified for click action")>>)

\* a voice wait that does not sleep
WaitForVoiceHandlerNoSleep(step, i, ok) ==
    Handled(<<Log(i, "Waiting for voice input...")>>)

WaitForVoiceHandler(step, i, ok) ==
    Handled(<<Log(i, "Waiting for voice input..."), Sleep(i, VoiceWaitMs)>>)

WaitForSilenceHandler(step, i, ok) ==
    Handled(<<Log(i, "Waiting for silence..."), Sleep(i, SilenceWaitMs)>>)

\* a wait handler without the `if element` test
WaitHandlerUnchecked(step, i, ok) ==
    LET evs == <<Log(i, "Waiting for element"),
                 Call("waitForSelector", i, step.element, ok)>>
    IN  IF ok THEN Handled(evs) ELSE Raised(evs)

WaitHandler(step, i, ok) ==
    IF step.element # <<>>
    THEN LET evs == <<Log(i, "Waiting for element"),
                      Call("waitForSelector", i, step.element, ok)>>
         IN  IF ok THEN Handled(evs) ELSE Raised(evs)
    ELSE Handled(<<Log(i, "Error: No element specified for wait action")>>)

SpeakHandler(step, i, ok) ==
    IF step.text # <<>>
    THEN LET script == FormatSpeak(step.text)
             js == ParseSpeak(script)
             done == ok /\ js.valid
             evs == <<Log(i, "Speaking"), Call("evaluate", i, script, done)>>
         IN  IF done
             THEN Handled(evs \o <<Call("speechSynthesis.speak", i, js.text, TRUE),
                                   Sleep(i, SpeechWaitMs)>>)
             ELSE Raised(evs)
    ELSE Handled(<<>>)

\* an unrecognized action treated as an error
UnknownHandlerFatal(step, i, ok) == Raised(<<Log(i, "Unknown action")>>)

UnknownHandler(step, i, ok) == Handled(<<Log(i, "Unknown action")>>)

ExecuteStep(step, i, ok) ==
    LET h == CASE step.action = "click" -> ClickHandler(step, i, ok)
               [] step.action = "wait_for_voice" -> WaitForVoiceHandler(step, i, ok)
               [] step.action = "wait_for_silence" -> WaitForSilenceHandler(step, i, ok)
               [] step.action = "wait" -> WaitHandler(step, i, ok)
               [] step.action = "speak" -> SpeakHandler(step, i, ok)
               [] OTHER -> UnknownHandler(step, i, ok)
    IN  IF h.raised THEN h
        ELSE Handled(h.ev \o <<Ev("elapsed", i, <<>>, SumSleep(h.ev), TRUE)>>)

-----------------------------------------------------------------------------
(* src/main.py: run_scenario *)

\* except Exception as e: print(f"Error running scenario: {e}")
MainExcept(tr) == Append(tr, Log(0, "Error running scenario"))

Unwind(tr) ==
    /\ trace' = MainExcept(tr)
    /\ pc' = "done"

MainLaunch ==
    /\ entry = "main" /\ pc = "launch"
    /\ \E ok \in BOOLEAN :
         IF ok
         THEN /\ trace' = Append(trace, Call("launch", 0, <<>>, TRUE))
              /\ browser' = "open"
              /\ pc' = "newPage"
         ELSE /\ Unwind(Append(trace, Call("launch", 0, <<>>, FALSE)))
              /\ UNCHANGED browser
    /\ UNCHANGED <<entry, numScen, started, steps, idx, jsFiles,
                 verbose, listener, console>>

\* a newPage whose failure is ignored
MainNewPageUnchecked ==
    /\ entry = "main" /\ pc = "newPage"
    /\ \E ok \in BOOLEAN : trace' = Append(trace, Call("newPage", 0, <<>>, ok))
    /\ listener' = verbose
    /\ pc' = "goto"
    /\ UNCHANGED <<entry, numScen, started, steps, idx, jsFiles, browser,
                 verbose, listener, console>>

MainNewPage ==
    /\ entry = "main" /\ pc = "newPage"
    /\ \E ok \in BOOLEAN :
         IF ok
         THEN /\ trace' = Append(trace, Call("newPage", 0, <<>>, TRUE))
              /\ listener' = verbose
              /\ pc' = "goto"
         ELSE /\ Unwind(Append(trace, Call("newPage", 0, <<>>, FALSE)))
              /\ UNCHANGED listener
    /\ UNCHANGED <<entry, numScen, started, steps, idx, jsFiles, browser, verbose, console>>

MainGoto ==
    /\ entry = "main" /\ pc = "goto"
    /\ \E ok \in BOOLEAN :
         IF ok
         THEN /\ trace' = Append(trace, Call("goto", 0, <<>>, TRUE))
              /\ pc' = "glob"
         ELSE Unwind(Append(trace, Call("goto", 0, <<>>, FALSE)))
    /\ UNCHANGED <<entry, numScen, started, steps, idx, jsFiles, browser,
                 verbose, listener, console>>

\* inject_javascript_files: js_files = glob.glob(...)
MainGlob ==
    /\ entry = "main" /\ pc = "glob"
    /\ \E g \in GlobResults : jsFiles' = g
    /\ idx' = 1
    /\ pc' = "inject"
    /\ UNCHANGED <<entry, numScen, started, steps, browser, trace,
                 verbose, listener, console>>

\* one iteration of inject_javascript_files' loop
InjectFile(file, ok) ==
    <<Call("addScriptTag", 0, file, ok),
      IF ok THEN Log(0, "Injected") ELSE Log(0, "Error injecting")>>

\* inject_javascript_files: the loop over js_files; when the list is
\* exhausted the function returns and the step loop begins
MainInject ==
    /\ entry = "main" /\ pc = "inject"
    /\ IF idx <= Len(jsFiles)
       THEN /\ \E ok \in BOOLEAN : trace' = trace \o InjectFile(jsFiles[idx], ok)
            /\ idx' = idx + 1
            /\ pc' = "inject"
       ELSE /\ idx' = 1
            /\ pc' = "steps"
            /\ UNCHANGED trace
    /\ UNCHANGED <<entry, numScen, started, steps, jsFiles, browser,
                 verbose, listener, console>>

\* for i, step in enumerate(steps, 1): print(...); await execute_step(step, page)
MainStep ==
    /\ entry = "main" /\ pc = "steps" /\ idx <= Len(steps)
    /\ \E ok \in BOOLEAN :
         LET r == ExecuteStep(steps[idx], idx, ok)
             tr == Append(trace, Log(idx, "Executing step")) \o r.ev
         IN  IF r.raised
             THEN Unwind(tr) /\ UNCHANGED idx
             ELSE /\ trace' = tr
                  /\ idx' = idx + 1
                  /\ pc' = "steps"
    /\ UNCHANGED <<entry, numScen, started, steps, jsFiles, browser,
                 verbose, listener, console>>

\* await asyncio.sleep(5); await browser.close()
MainClose ==
    /\ entry = "main" /\ pc = "steps" /\ idx > Len(steps)
    /\ trace' = trace \o <<Sleep(0, KeepOpenMs), Call("close", 0, <<>>, TRUE)>>
    /\ browser' = "closed"
    /\ pc' = "done"
    /\ UNCHANGED <<entry, numScen, started, steps, idx, jsFiles,
                 verbose, listener, console>>

-----------------------------------------------------------------------------
(* src/voice_agent_tester/__main.py: run_scenario and run *)

IsDigit(c) == \E d \in 1..Len(Digits) : Digits[d] = c
DigitValue(c) == (CHOOSE d \in 1..Len(Digits) : Digits[d] = c) - 1

RECURSIVE DecimalValue(_)
DecimalValue(s) ==
    IF s = <<>> THEN 0
    ELSE 10 * DecimalValue(SubSeq(s, 1, Len(s) - 1)) + DigitValue(s[Len(s)])

\* int(step.value): the number a decimal string denotes, or ValueError
ParseInt(s) ==
    IF s # <<>> /\ \A k \in 1..Len(s) : IsDigit(s[k])
    THEN [valid |-> TRUE, value |-> DecimalValue(s)]
    ELSE [valid |-> FALSE, value |-> 0]

\* except Exception as e: print(f"An error occurred during scenario execution: {e}")
PkgExcept(tr) == Append(tr, Log(0, "An error occurred during scenario execution"))

\* run: except Exception as e: print(f"An unexpected error occurred: {e}")
RunExcept(tr) == Append(tr, Log(0, "An unexpected error occurred"))

\* run: the loop reaches the next scenario and calls run_scenario on it.
\* config.scenarios is never changed; the model keeps its length and the
\* step list of the scenario being run, which it reads here.
PkgStartScenario ==
    /\ entry = "pkg" /\ pc = "loop" /\ started < numScen
    /\ started' = started + 1
    /\ \E s \in SeqsUpTo(PkgSteps, MaxSteps) : steps' = s
    /\ trace' = <<Log(0, "Running scenario")>>
    /\ browser' = "none"
    /\ listener' = FALSE
    /\ console' = 0
    /\ idx' = 1
    /\ pc' = "launch"
    /\ UNCHANGED <<entry, numScen, jsFiles, verbose>>

\* run: the loop over config.scenarios is exhausted
PkgExit ==
    /\ entry = "pkg" /\ pc = "loop" /\ started >= numScen
    /\ pc' = "exit"
    /\ UNCHANGED <<entry, numScen, started, steps, idx, jsFiles, browser, trace,
                 verbose, listener, console>>

\* browser = await launch(headless=False), outside the try
PkgLaunch ==
    /\ entry = "pkg" /\ pc = "launch"
    /\ \E ok \in BOOLEAN :
         IF ok
         THEN /\ trace' = Append(trace, Call("launch", 0, <<>>, TRUE))
              /\ browser' = "open"
              /\ pc' = "newPage"
         ELSE /\ trace' = RunExcept(Append(trace, Call("launch", 0, <<>>, FALSE)))
              /\ pc' = "exit"
              /\ UNCHANGED browser
    /\ UNCHANGED <<entry, numScen, started, steps, idx, jsFiles,
                 verbose, listener, console>>

\* page = await browser.newPage(), outside the try
PkgNewPage ==
    /\ entry = "pkg" /\ pc = "newPage"
    /\ \E ok \in BOOLEAN :
         IF ok
         THEN /\ trace' = Append(trace, Call("newPage", 0, <<>>, TRUE))
              /\ listener' = TRUE
              /\ pc' = "goto"
         ELSE /\ trace' = RunExcept(Append(trace, Call("newPage", 0, <<>>, FALSE)))
              /\ pc' = "exit"
              /\ UNCHANGED listener
    /\ UNCHANGED <<entry, numScen, started, steps, idx, jsFiles, browser, verbose, console>>

PkgGoto ==
    /\ entry = "pkg" /\ pc = "goto"
    /\ \E ok \in BOOLEAN :
         LET tr == trace \o <<Log(0, "Navigating to"), Call("goto", 0, <<>>, ok)>>
         IN  IF ok
             THEN trace' = tr /\ pc' = "asset"
             ELSE trace' = PkgExcept(tr) /\ pc' = "finally"
    /\ idx' = 1
    /\ UNCHANGED <<entry, numScen, started, steps, jsFiles, browser,
                 verbose, listener, console>>

\* one of the three blocks: if os.path.exists(path): ... evaluate ... else warn
InjectAsset(a, present, ok) ==
    IF present
    THEN LET evs == <<Call("exists", 0, a, TRUE), Log(0, "Injecting"),
                      Call("evaluate", 0, a, ok)>>
         IN  IF ok THEN Handled(evs) ELSE Raised(evs)
    ELSE Handled(<<Call("exists", 0, a, FALSE), Log(0, "Warning: not found")>>)

\* a step loop that starts before the scenario-specific script is handled
AfterAssetEarly(i) ==
    IF i < Len(Assets) - 1 THEN [idx |-> i + 1, pc |-> "asset"]
    ELSE [idx |-> 1, pc |-> "steps"]

\* the three blocks follow one another; the step loop follows the third
AfterAsset(i) ==
    IF i < Len(Assets) THEN [idx |-> i + 1, pc |-> "asset"]
    ELSE [idx |-> 1, pc |-> "steps"]

PkgAsset ==
    /\ entry = "pkg" /\ pc = "asset"
    /\ \E present, ok \in BOOLEAN :
         LET r == InjectAsset(Assets[idx], present, ok)
         IN  IF r.raised
             THEN /\ trace' = PkgExcept(trace \o r.ev)
                  /\ pc' = "finally"
                  /\ UNCHANGED idx
             ELSE /\ trace' = trace \o r.ev
                  /\ idx' = AfterAsset(idx).idx
                  /\ pc' = AfterAsset(idx).pc
    /\ UNCHANGED <<entry, numScen, started, steps, jsFiles, browser,
                 verbose, listener, console>>

\* the body of `for step in scenario.steps`
PkgStepBody(step, i) ==
    LET head == <<Log(i, "Executing step")>>
    IN  IF step.action = "wait"
        THEN LET v == ParseInt(step.value)
                 conv == Call("int", i, step.value, v.valid)
             IN  IF v.valid
                 THEN Handled(head \o <<conv, Sleep(i, MsPerSecond * v.value)>>)
                 ELSE Raised(head \o <<conv>>)
        ELSE IF step.action = "say"
        THEN Handled(head \o <<Log(i, "Simulating voice input")>>)
        ELSE Handled(head \o <<Log(i, "Unknown action")>>)

\* a step loop outside the try: the failure of a step leaves run_scenario
PkgStepUncaught ==
    /\ entry = "pkg" /\ pc = "steps" /\ idx <= Len(steps)
    /\ LET r == PkgStepBody(steps[idx], idx)
       IN  IF r.raised
           THEN /\ trace' = RunExcept(trace \o r.ev)
                /\ pc' = "exit"
                /\ UNCHANGED idx
           ELSE /\ trace' = trace \o r.ev
                /\ idx' = idx + 1
                /\ pc' = "steps"
    /\ UNCHANGED <<entry, numScen, started, steps, jsFiles, browser,
                 verbose, listener, console>>

PkgStep ==
    /\ entry = "pkg" /\ pc = "steps" /\ idx <= Len(steps)
    /\ LET r == PkgStepBody(steps[idx], idx)
       IN  IF r.raised
           THEN /\ trace' = PkgExcept(trace \o r.ev)
                /\ pc' = "finally"
                /\ UNCHANGED idx
           ELSE /\ trace' = trace \o r.ev
                /\ idx' = idx + 1
                /\ pc' = "steps"
    /\ UNCHANGED <<entry, numScen, started, steps, jsFiles, browser,
                 verbose, listener, console>>

\* a run_scenario that returns without closing the browser
PkgCloseLeak ==
    /\ entry = "pkg"
    /\ pc = "finally" \/ (pc = "steps" /\ idx > Len(steps))
    /\ pc' = "loop"
    /\ UNCHANGED <<entry, numScen, started, steps, idx, jsFiles, browser, trace,
                 verbose, listener, console>>

\* finally: await browser.close(); run_scenario returns to the loop of run
PkgClose ==
    /\ entry = "pkg"
    /\ pc = "finally" \/ (pc = "steps" /\ idx > Len(steps))
    /\ trace' = Append(trace, Call("close", 0, <<>>, TRUE))
    /\ browser' = "closed"
    /\ pc' = "loop"
    /\ UNCHANGED <<entry, numScen, started, steps, idx, jsFiles,
                 verbose, listener, console>>

-----------------------------------------------------------------------------
(* The console listeners.  pyppeteer calls a listener from the event loop,  *)
(* which runs while the process is suspended in an await.  Every step of     *)
(* main.py is awaited; the step loop of the package has no await (it sleeps  *)
(* with time.sleep), so there the listener runs during navigation, the      *)
(* evaluation of the assets and the closing of the browser.                  *)

\* a listener that does more than print: it moves the step loop on
MainConsoleClobbers ==
    /\ entry = "main" /\ listener /\ browser = "open" /\ pc # "done"
    /\ console < MaxConsole
    /\ console' = console + 1
    /\ idx' = idx + 1
    /\ UNCHANGED <<entry, numScen, started, steps, pc, jsFiles, browser, trace,
                   verbose, listener>>

\* page.on('console', lambda msg: print(f"[BROWSER] {msg.text}"))
MainConsole ==
    /\ entry = "main" /\ listener /\ browser = "open" /\ pc # "done"
    /\ console < MaxConsole
    /\ console' = console + 1
    /\ UNCHANGED <<entry, numScen, started, steps, pc, idx, jsFiles, browser, trace,
                   verbose, listener>>

\* handle_console_log: print(f"JS> {text}")
PkgConsole ==
    /\ entry = "pkg" /\ listener /\ browser = "open"
    /\ pc \in {"goto", "asset", "finally"} \/ (pc = "steps" /\ idx > Len(steps))
    /\ console < MaxConsole
    /\ console' = console + 1
    /\ UNCHANGED <<entry, numScen, started, steps, pc, idx, jsFiles, browser, trace,
                   verbose, listener>>

-----------------------------------------------------------------------------
(* The program *)

Init ==
    /\ entry \in {"main", "pkg"}
    /\ IF entry = "main"
       THEN /\ numScen = 1
            /\ started = 1
            /\ steps \in SeqsUpTo(MainSteps, MaxSteps)
            /\ pc = "launch"
       ELSE /\ numScen \in 0..MaxScenarios
            /\ started = 0
            /\ steps = <<>>
            /\ pc = "loop"
    /\ verbose \in (IF entry = "main" THEN BOOLEAN ELSE {FALSE})
    /\ listener = FALSE
    /\ console = 0
    /\ idx = 1
    /\ jsFiles = <<>>
    /\ browser = "none"
    /\ trace = <<>>

Next ==
    \/ MainLaunch
    \/ MainNewPage
    \/ MainGoto
    \/ MainGlob
    \/ MainInject
    \/ MainStep
    \/ MainClose
    \/ PkgStartScenario
    \/ PkgExit
    \/ PkgLaunch
    \/ PkgNewPage
    \/ PkgGoto
    \/ PkgAsset
    \/ PkgStep
    \/ PkgClose
    \/ MainConsole
    \/ PkgConsole

Spec == Init /\ [][Next]_vars

-----------------------------------------------------------------------------
(* Reading the trace *)

Events(op) == {k \in 1..Len(trace) : trace[k].op = op}

IsDispatch(e) == e.op = "print" /\ e.arg = <<"Executing step">>
Dispatches == {k \in 1..Len(trace) : IsDispatch(trace[k])}

\* the step numbers dispatched, in the order of their dispatch
RECURSIVE StepsOf(_)
StepsOf(tr) ==
    IF tr = <<>> THEN <<>>
    ELSE (IF IsDispatch(Head(tr)) THEN <<Head(tr).step>> ELSE <<>>) \o StepsOf(Tail(tr))
Dispatched == StepsOf(trace)

\* an instrumentation asset is handed to the page
IsInjection(e) == e.op = "addScriptTag" \/ (e.op = "evaluate" /\ e.step = 0)
Injections == {k \in 1..Len(trace) : IsInjection(trace[k])}

\* a call of a step handler failed
StepFailures == {k \in 1..Len(trace) : trace[k].step > 0 /\ ~trace[k].ok}

Launched == \E k \in Events("launch") : trace[k].ok
Navigated == \E k \in Events("goto") : trace[k].ok
Closes == Cardinality(Events("close"))

\* a run_scenario call has ended and the next has not begun
RunEnded ==
    \/ entry = "main" /\ pc = "done"
    \/ entry = "pkg" /\ pc \in {"loop", "exit"} /\ started > 0

\* after event k of step i, the loop goes on: step i+1 is dispatched, or,
\* after the last step, the browser is closed
GoesOnAfter(k) ==
    IF trace[k].step < Len(steps)
    THEN \E m \in Dispatches : m > k /\ trace[m].step = trace[k].step + 1
    ELSE \E m \in Events("close") : m > k

-----------------------------------------------------------------------------
(* Claims *)

\* C1: in every scenario run in which the browser was launched, browser.close()
\* has been invoked exactly once when run_scenario has ended, on every exit
\* path.
C1_ClosedExactlyOnce == (RunEnded /\ Launched) => Closes = 1

\* C2: a failing step never terminates the scenario: when the handler of
\* step i fails, the session stays open and step i+1 is dispatched next (or
\* teardown follows, after the last step).
C2_FailingStepContinues ==
    RunEnded => \A k \in StepFailures :
                   /\ GoesOnAfter(k)
                   /\ \A m \in Events("close") : m > k

\* C3: whatever the outcomes of the steps, the steps dispatched by the
\* interpreter loop are the configured steps, each once, in order.
C3_DispatchedIsConfigured ==
    (RunEnded /\ Dispatched # <<>>) => Dispatched = [i \in 1..Len(steps) |-> i]

\* C4: an evaluation error while injecting one asset is isolated: the
\* remaining assets are still handled and the steps of the scenario still run.
C4_InjectionErrorIsolated ==
    RunEnded =>
      \A k \in Injections : ~trace[k].ok =>
        /\ entry = "main" => Cardinality(Events("addScriptTag")) = Len(jsFiles)
        /\ entry = "pkg" => Cardinality(Events("exists")) = Len(Assets)
        /\ steps # <<>> => \E m \in Dispatches : m > k /\ trace[m].step = 1

AssetRank(a) == CHOOSE r \in 1..Len(Assets) : Assets[r] = a

\* C5: the assets are evaluated in the order audio-output hook, audio-input
\* hook, scenario script; a missing asset gives a warning only and every
\* asset that is present is still evaluated.  Stated for the runs in which
\* no evaluation raises.
C5_FixedAssetOrder ==
    (RunEnded /\ Navigated /\ \A k \in Injections : trace[k].ok) =>
      /\ \A k, m \in Injections :
            k < m => AssetRank(trace[k].arg) < AssetRank(trace[m].arg)
      /\ entry = "pkg" =>
           \A r \in 1..Len(Assets) :
              \E k \in Events("exists") :
                 /\ trace[k].arg = Assets[r]
                 /\ IF trace[k].ok
                    THEN IsInjection(trace[k + 2]) /\ trace[k + 2].arg = Assets[r]
                    ELSE trace[k + 1] = Log(0, "Warning: not found")

\* every asset has been evaluated, reported as failed or reported missing
\* by event k
AssetsSettledBy(k) ==
    IF entry = "main"
    THEN \A f \in 1..Len(jsFiles) :
            \E m \in Events("addScriptTag") :
               /\ m + 1 < k
               /\ trace[m].arg = jsFiles[f]
               /\ trace[m + 1] = Log(0, IF trace[m].ok THEN "Injected"
                                                       ELSE "Error injecting")
    ELSE \A r \in 1..Len(Assets) :
            \E m \in Events("exists") :
               /\ m < k
               /\ trace[m].arg = Assets[r]
               /\ IF trace[m].ok
                  THEN m + 2 < k /\ IsInjection(trace[m + 2])
                       /\ trace[m + 2].arg = Assets[r]
                  ELSE m + 1 < k /\ trace[m + 1] = Log(0, "Warning: not found")

\* C6: injection completes before the first step: no step is dispatched
\* until navigation has returned and every asset has been evaluated, reported
\* as failed or reported missing, and no asset is evaluated after a step has
\* been dispatched.
C6_InjectionBeforeSteps ==
    \A k \in Dispatches :
       /\ \E m \in Events("goto") : m < k /\ trace[m].ok
       /\ AssetsSettledBy(k)
       /\ \A m \in Injections \cup Events("exists") : m < k

\* a step has been dispatched after one asset was evaluated and another was
\* missing or failed to evaluate
C6_Witness ==
    /\ Dispatches # {}
    /\ \E k \in Injections : trace[k].ok
    /\ \/ \E k \in Injections : ~trace[k].ok
       \/ \E k \in Events("exists") : ~trace[k].ok

\* C7: the process runs all configured scenarios: whatever fails in one
\* scenario, every later scenario is still started.
C7_AllScenariosStarted == pc = "exit" => started = numScen

\* C8: when page.click raises in a click step, the failure is logged for
\* that step, no exception leaves execute_step, the elapsed time of the step
\* is reported, and the loop proceeds to the next step (or to the closing of
\* the browser after the last step).
C8_ClickFailureIsolated ==
    \A k \in Events("click") : ~trace[k].ok =>
       LET i == trace[k].step
       IN  /\ Len(trace) >= k + 2
           /\ trace[k + 1] = Log(i, "Error clicking element")
           /\ trace[k + 2].op = "elapsed" /\ trace[k + 2].step = i
           /\ IF Len(trace) = k + 2
              THEN pc = "steps" /\ idx = i + 1 /\ browser = "open"
              ELSE IF i < Len(steps)
              THEN trace[k + 3] = Log(i + 1, "Executing step")
              ELSE trace[k + 3] = Sleep(0, KeepOpenMs)

\* page.click failed in a step and the next step has been dispatched
C8_Witness ==
    \E k \in Events("click") :
       /\ ~trace[k].ok
       /\ \E m \in Dispatches : m > k /\ trace[m].step = trace[k].step + 1

\* C9: when page.waitForSelector times out in a wait step, the timeout is
\* logged as a failure of that step and the scenario continues with the next
\* step.
C9_WaitTimeoutContinues ==
    RunEnded =>
      \A k \in Events("waitForSelector") : ~trace[k].ok =>
         /\ k < Len(trace)
         /\ trace[k + 1].op = "print" /\ trace[k + 1].step = trace[k].step
         /\ GoesOnAfter(k)

\* the text a speech step carries
SpeechText(step) == IF entry = "main" THEN step.text ELSE step.value
IsSpeechStep(step) ==
    /\ step.action = (IF entry = "main" THEN "speak" ELSE "say")
    /\ SpeechText(step) # <<>>

\* C10: a speak step with text T invokes the speech-synthesis entry point of
\* the page exactly once, with the literal text T, before the post-speech
\* delay; no other step invokes it.  Stated for the steps none of whose calls
\* on the page failed.
C10_SpokenLiterally ==
    RunEnded =>
      \A d \in Dispatches :
         LET i == trace[d].step
             said == {k \in Events("speechSynthesis.speak") : trace[k].step = i}
         IN  (\A k \in 1..Len(trace) : trace[k].step = i => trace[k].ok) =>
               IF IsSpeechStep(steps[i])
               THEN /\ Cardinality(said) = 1
                    /\ \A k \in said :
                          /\ trace[k].arg = SpeechText(steps[i])
                          /\ k < Len(trace) /\ trace[k + 1].op = "sleep"
               ELSE said = {}

\* the events of step i, in order
StepEvents(i) == SelectSeq(trace, LAMBDA e : e.step = i)

\* the step whose events end at position last has returned to the loop:
\* the next step is about to be dispatched or has been, or, after the last
\* step, the closing of the browser follows
ProceedsAfter(last, i) ==
    IF Len(trace) = last
    THEN pc = "steps" /\ idx = i + 1 /\ browser = "open"
    ELSE IF i < Len(steps)
    THEN trace[last + 1] = Log(i + 1, "Executing step")
    ELSE trace[last + 1].step = 0 /\ trace[last + 1].op \in {"sleep", "close"}

IsKnown(step) ==
    IF entry = "main"
    THEN step.action \in {"click", "wait_for_voice", "wait_for_silence", "wait", "speak"}
    ELSE step.action \in {"wait", "say"}

\* C11: a step of an unrecognized kind is a no-op that is logged as
\* unrecognized: it issues no command against the browser, raises no error,
\* and the next step is dispatched.
C11_UnknownIsNoOp ==
    \A d \in Dispatches :
       LET i == trace[d].step
           own == StepEvents(i)
       IN  ~IsKnown(steps[i]) =>
             /\ own = <<Log(i, "Executing step"), Log(i, "Unknown action")>>
                      \o (IF entry = "main"
                          THEN <<Ev("elapsed", i, <<>>, 0, TRUE)>> ELSE <<>>)
             /\ ProceedsAfter(d + Len(own) - 1, i)

\* an unrecognized step was dispatched and the step after it as well
C11_Witness ==
    \E d, m \in Dispatches :
       /\ ~IsKnown(steps[trace[d].step])
       /\ trace[m].step = trace[d].step + 1

\* C12: every step dispatched by execute_step yields exactly one
\* elapsed-time report, also when its handler fails.
C12_ElapsedReportedOnce ==
    (RunEnded /\ entry = "main") =>
      \A d \in Dispatches :
         Cardinality({k \in Events("elapsed") : trace[k].step = trace[d].step}) = 1

DelayOf(step) == IF step.action = "wait_for_voice" THEN VoiceWaitMs ELSE SilenceWaitMs

C14_OneAtATime ==
    [][started' # started =>
         /\ started' = started + 1
         /\ pc = "loop"
         /\ started > 0 => (browser = "closed" /\ Closes = 1)]_vars

\* a second scenario has been started
C14_Witness == entry = "pkg" /\ started = 2 /\ pc = "launch"

\* the commands issued against the browser session
PageCommands ==
    {k \in 1..Len(trace) :
        trace[k].op \in {"goto", "addScriptTag", "evaluate", "click", "waitForSelector"}}

\* C17: every command issued against the browser session is issued while the
\* session is open: after launch and page creation have succeeded, and before
\* browser.close() is invoked.
C17_CommandsWhileOpen ==
    \A k \in PageCommands :
       /\ \E m \in Events("launch") : m < k /\ trace[m].ok
       /\ \E m \in Events("newPage") : m < k /\ trace[m].ok
       /\ \A m \in Events("close") : m > k

\* a step has issued a command and the browser has been closed since
C17_Witness ==
    /\ Closes = 1
    /\ \E k \in PageCommands : trace[k].step > 0

\* the failures the try of the package's run_scenario covers
CaughtFailures ==
    {k \in 1..Len(trace) : trace[k].op \in {"goto", "evaluate", "int"} /\ ~trace[k].ok}

\* C18: in the package entry point an exception raised after page creation
\* (navigation, asset evaluation, a wait step whose value is no integer) is
\* logged, skips every remaining asset and step of the scenario, does not
\* leave run_scenario, and the browser is still closed, so that the loop of
\* run goes on to the next configured scenario.
C18_ScenarioFailureContained ==
    entry = "pkg" =>
      \A k \in CaughtFailures :
         /\ Len(trace) > k
         /\ trace[k + 1] = Log(0, "An error occurred during scenario execution")
         /\ IF Len(trace) = k + 1
            THEN pc = "finally" /\ browser = "open"
            ELSE /\ Len(trace) = k + 2
                 /\ trace[k + 2] = Call("close", 0, <<>>, TRUE)
                 /\ browser = "closed"
                 /\ IF started < numScen
                    THEN pc = "loop" /\ ENABLED PkgStartScenario
                    ELSE pc \in {"loop", "exit"}

\* a step of the first of two scenarios failed, the browser was closed and
\* the loop is about to start the second scenario
C18_Witness ==
    /\ entry = "pkg" /\ pc = "loop" /\ started < numScen
    /\ \E k \in CaughtFailures : trace[k].step > 0

\* a click or wait step without element, or a speak step without text
LacksArgument(step) ==
    \/ step.action \in {"click", "wait"} /\ step.element = <<>>
    \/ step.action = "speak" /\ step.text = <<>>

\* the line execute_step prints for a step without its argument
MissingLine(step, i) ==
    IF step.action = "click"
    THEN <<Log(i, "Error: No element specified for click action")>>
    ELSE IF step.action = "wait"
    THEN <<Log(i, "Error: No element specified for wait action")>>
    ELSE <<>>

\* C19: in execute_step of src/main.py a click or wait step with no element
\* and a speak step with no text issue no command against the page and raise
\* no error; click and wait log an error line, the elapsed time of the step
\* is reported and the next step is dispatched.
C19_MissingArgumentIsNoOp ==
    \A d \in Dispatches :
       LET i == trace[d].step
           own == StepEvents(i)
       IN  (entry = "main" /\ LacksArgument(steps[i])) =>
             /\ own = <<Log(i, "Executing step")>> \o MissingLine(steps[i], i)
                      \o <<Ev("elapsed", i, <<>>, 0, TRUE)>>
             /\ ProceedsAfter(d + Len(own) - 1, i)

\* a wait step without element was dispatched, and the step after it as well
C19_Witness ==
    \E d, m \in Dispatches :
       /\ entry = "main"
       /\ steps[trace[d].step].action = "wait"
       /\ LacksArgument(steps[trace[d].step])
       /\ trace[m].step = trace[d].step + 1

\* C15: the console observer is read-only: a console message is printed only
\* between the registration of the listener and the closing of the session,
\* each arrival adds one line to the log, and it changes neither the session
\* nor the position, the steps or the recorded outcomes of the run.
C15_ConsoleReadOnly ==
    [][console' > console =>
         /\ listener /\ browser = "open"
         /\ console' = console + 1
         /\ UNCHANGED <<entry, numScen, started, steps, pc, idx, jsFiles, browser,
                        trace, verbose, listener>>]_vars

\* a console message was printed before a step of a run that has dispatched one
C15_Witness ==
    /\ console >= 1
    /\ Dispatches # {}
    /\ pc = "steps" /\ idx <= Len(steps)

\* C16: page console output reaches the log only when the verbose flag is
\* set: without it no listener is registered and no console message is
\* printed.
C16_ConsoleOnlyIfVerbose == ~verbose => (~listener /\ console = 0)

====
